---- MODULE Spec2Model ----
(***************************************************************************)
(* A model of download_wiki_revisions.py: the batch script that fetches    *)
(* the revision history of one wiki page and stores every revision as      *)
(* <data_dir>/<page>/<year>/<month>/<revision_id>.xml.                     *)
(*                                                                         *)
(* A path is a sequence of names relative to the working directory.  The   *)
(* file system is a record [dirs, files]: the set of directories and a     *)
(* function from the paths of the regular files to their content.  The     *)
(* trees considered are those the script itself builds (directories at the *)
(* directory levels, regular files at the leaves).                         *)
(*                                                                         *)
(* A piece of markup is a record with one field per tag name; the field    *)
(* holds the text of the matching tags in document order, so that the      *)
(* first match is the head and an absent tag is the empty sequence.        *)
(***************************************************************************)
EXTENDS Integers, Sequences, FiniteSets, TLC

VARIABLES
    blob,       \* the body the export endpoint answers with
    fs,         \* the file system
    pc,         \* position of the run inside main
    update,     \* the --update flag of the current run
    i,          \* number of revisions taken from the generator so far
    err,        \* the exception that ended the run, "" when none
    num_files,  \* <<n>> once "n files downloaded." was printed
    fsBefore,   \* history: the file system when the current run started
    log,        \* history: what the current run did, in order
    prev,       \* history: <<>> or <<[pc, update, num_files]>> of the previous run
    runs,       \* history: number of runs started
    arg_folder,     \* the folder count_files is called with
    arg_folders     \* the folders flag count_files is called with

vars == <<blob, fs, pc, update, i, err, num_files, fsBefore, log, prev, runs,
          arg_folder, arg_folders>>

-----------------------------------------------------------------------------
(* Bounds *)

MaxFrags == 2   \* revisions in the answered body
MaxRuns  == 2   \* invocations of main in one behaviour
MaxDepth == 2   \* depth of the directory trees handed to count_files

-----------------------------------------------------------------------------
(* Inputs *)

DATA_DIR == <<"data">>
Page     == "Cat"

\* Timestamp texts: the digits where %Y and %m are expected, and the rest.
\* strptime wants "-%dT%H:%M:%SZ" after the month.
ValidRest == {"-05T12:00:00Z", "-10T08:30:00Z"}

Jan05   == [Y |-> <<2, 0, 2, 0>>, m |-> <<0, 1>>, rest |-> "-05T12:00:00Z"]
Jan05s  == [Y |-> <<2, 0, 2, 0>>, m |-> <<1>>,    rest |-> "-05T12:00:00Z"]
Feb10   == [Y |-> <<2, 0, 2, 0>>, m |-> <<0, 2>>, rest |-> "-10T08:30:00Z"]
Month13 == [Y |-> <<2, 0, 2, 0>>, m |-> <<1, 3>>, rest |-> "-05T12:00:00Z"]
NoZone  == [Y |-> <<2, 0, 2, 0>>, m |-> <<0, 1>>, rest |-> "-05 12:00:00"]

Ids == {"100", "101"}

\* Well-formed revisions: one id and one timestamp the pattern accepts.  Two of
\* them differ in their text only, two share an id across months, two share a
\* month across ids, and one writes its month with one digit.
GoodRevisions ==
    { [id |-> <<"100">>, timestamp |-> <<Jan05>>,  text |-> "new"],
      [id |-> <<"100">>, timestamp |-> <<Jan05>>,  text |-> "newer"],
      [id |-> <<"101">>, timestamp |-> <<Jan05s>>, text |-> "new"],
      [id |-> <<"101">>, timestamp |-> <<Feb10>>,  text |-> "new"] }

\* Malformed revisions: no id tag, no timestamp tag, a timestamp off the pattern.
BadRevisions ==
    { [id |-> <<>>,      timestamp |-> <<Jan05>>,   text |-> "new"],
      [id |-> <<"100">>, timestamp |-> <<>>,        text |-> "new"],
      [id |-> <<"101">>, timestamp |-> <<Month13>>, text |-> "new"],
      [id |-> <<"101">>, timestamp |-> <<NoZone>>,  text |-> "new"] }

Revisions == GoodRevisions \cup BadRevisions

\* What an earlier run (of an earlier state of the page) left in a file.
OldText == [id |-> <<"100">>, timestamp |-> <<Jan05>>, text |-> "old"]

SeqsUpTo(S, n) == UNION {[1..k -> S] : k \in 0..n}

\* An export body: the page wrapper (or none) and the revisions in it.
Blobs == [page : {<<>>, <<Page>>}, revision : SeqsUpTo(Revisions, MaxFrags)]

-----------------------------------------------------------------------------
(* The file system *)

EmptyFS == [dirs |-> {}, files |-> [q \in {} |-> OldText]]

Prefixes(p) == {SubSeq(p, 1, k) : k \in 0..Len(p)}
Parent(p)   == SubSeq(p, 1, Len(p) - 1)

IsDir(f, p)  == p = <<>> \/ p \in f.dirs
IsFile(f, p) == p \in DOMAIN f.files
Exists(f, p) == IsDir(f, p) \/ IsFile(f, p)

Entries(f) == f.dirs \cup DOMAIN f.files

\* os.listdir(folder)
Listdir(f, folder) ==
    {p \in Entries(f) : Len(p) = Len(folder) + 1 /\ Parent(p) = folder}

\* Path.mkdir(parents=True, exist_ok=True)
Mkdir(f, p) == [f EXCEPT !.dirs = @ \cup (Prefixes(p) \ {<<>>})]

\* Path.write_text(text)
WriteText(f, p, text) ==
    [f EXCEPT !.files = [q \in DOMAIN @ \cup {p} |-> IF q = p THEN text ELSE @[q]]]

-----------------------------------------------------------------------------
(* count_files *)

RECURSIVE CountFiles(_, _, _), CountItems(_, _, _)

\* count_files without the recursive call: what the folder lists
CountFilesFlat(f, folder, folders) == Cardinality(Listdir(f, folder))

\* The body of "for item in os.listdir(folder)" summed over the items.
CountItems(f, items, folders) ==
    IF items = {} THEN 0
    ELSE LET item == CHOOSE x \in items : TRUE
             here == IF IsDir(f, item)
                     THEN (IF folders THEN 1 ELSE 0) + CountFiles(f, item, folders)
                     ELSE 1
         IN  here + CountItems(f, items \ {item}, folders)

CountFiles(f, folder, folders) == CountItems(f, Listdir(f, folder), folders)

-----------------------------------------------------------------------------
(* Markup and timestamps.  A result is <<v>> when the call returns v and   *)
(* <<>> when it raises ValueError.                                         *)

RECURSIVE Num(_)
Num(ds) == IF ds = <<>> THEN 0 ELSE 10 * Num(SubSeq(ds, 1, Len(ds) - 1)) + ds[Len(ds)]

\* soup.find(attribute): the first match, None when there is none
ExtractAttribute(text, attribute) ==
    IF attribute \in DOMAIN text /\ text[attribute] # <<>>
    THEN <<Head(text[attribute])>>
    ELSE <<>>

\* datetime.strptime(timestring, "%Y-%m-%dT%H:%M:%SZ"): %Y is exactly four
\* digits, %m is one or two digits naming a month.
ParseTimestring(timestring) ==
    IF /\ Len(timestring.Y) = 4
       /\ Num(timestring.Y) >= 1
       /\ Len(timestring.m) \in {1, 2}
       /\ Num(timestring.m) \in 1..12
       /\ timestring.rest \in ValidRest
    THEN <<[year |-> Num(timestring.Y), month |-> Num(timestring.m)]>>
    ELSE <<>>

\* extract_id applying str() to the match itself: "None" when there is none
ExtractIdOfNone(revision) ==
    LET a == ExtractAttribute(revision, "id")
    IN  IF a = <<>> THEN <<"None">> ELSE a

ExtractId(revision) == ExtractAttribute(revision, "id")

FindTimestamp(revision) ==
    LET a == ExtractAttribute(revision, "timestamp")
    IN  IF a = <<>> THEN <<>> ELSE ParseTimestring(a[1])

\* str(n) without zfill
NoZfill(n) == ToString(n)

\* str(n).zfill(2)
Zfill2(n) == IF n < 10 THEN "0" \o ToString(n) ELSE ToString(n)

ConstructPath(page_name, save_dir, wiki_revision) ==
    LET revision_id == ExtractId(wiki_revision)
        timestamp   == FindTimestamp(wiki_revision)
    IN  IF revision_id = <<>> \/ timestamp = <<>> THEN <<>>
        ELSE <<save_dir \o <<page_name, ToString(timestamp[1].year),
                              Zfill2(timestamp[1].month),
                              revision_id[1] \o ".xml">>>>

\* validate_page swallowing the ValueError
ValidatePageAlways(page_name, page_xml) == TRUE

\* validate_page: TRUE when it returns, FALSE when it raises
ValidatePage(page_name, page_xml) == ExtractAttribute(page_xml, "page") # <<>>

\* parse_mediawiki_revisions yielding the matches last to first
ParseReversed(xml_content) ==
    [k \in 1..Len(xml_content.revision) |->
        xml_content.revision[Len(xml_content.revision) + 1 - k]]

\* parse_mediawiki_revisions: the revisions of the body in document order
ParseMediawikiRevisions(xml_content) == xml_content.revision

-----------------------------------------------------------------------------
(* main *)

\* "if revision_path.exists()": the flag forgotten
SkipsExisting(upd, f, revision_path) == Exists(f, revision_path)

\* "if not update and not revision_path.exists()": the test inverted
SkipsMissing(upd, f, revision_path) == ~upd /\ ~Exists(f, revision_path)

\* "if not update and revision_path.exists()"
Skips(upd, f, revision_path) == ~upd /\ Exists(f, revision_path)

\* "if not revision_path.exists(): mkdir" and "write_text"
Save(f, revision_path, wiki_revision) ==
    WriteText(IF Exists(f, revision_path) THEN f ELSE Mkdir(f, Parent(revision_path)),
              revision_path, wiki_revision)

\* One pass of the for loop that leaves the loop after a write ("break")
IterateBreak(upd, f, revs, n) ==
    LET wiki_revision == revs[n + 1]
        p == ConstructPath(Page, DATA_DIR, wiki_revision)
    IN  IF p = <<>>
        THEN [fs |-> f, i |-> n + 1, pc |-> "error", did |-> "raise", path |-> <<>>]
        ELSE IF Skips(upd, f, p[1])
        THEN [fs |-> f, i |-> n + 1, pc |-> "loop", did |-> "skip", path |-> p[1]]
        ELSE [fs |-> Save(f, p[1], wiki_revision), i |-> Len(revs), pc |-> "loop",
              did |-> "write", path |-> p[1]]

\* One pass of the for loop over the generator, n revisions having been taken.
Iterate(upd, f, revs, n) ==
    LET wiki_revision == revs[n + 1]
        p == ConstructPath(Page, DATA_DIR, wiki_revision)
    IN  IF p = <<>>
        THEN [fs |-> f, i |-> n + 1, pc |-> "error", did |-> "raise", path |-> <<>>]
        ELSE IF Skips(upd, f, p[1])
        THEN [fs |-> f, i |-> n + 1, pc |-> "loop", did |-> "skip", path |-> p[1]]
        ELSE [fs |-> Save(f, p[1], wiki_revision), i |-> n + 1, pc |-> "loop",
              did |-> "write", path |-> p[1]]

Event(op, n, did, path, text) ==
    [op |-> op, n |-> n, did |-> did, path |-> path, text |-> text]

\* main is invoked (again) with an --update flag
Main(u) ==
    /\ pc \in {"idle", "done", "error"}
    /\ runs < MaxRuns
    /\ pc' = "fetch"
    /\ update' = u
    /\ i' = 0
    /\ err' = ""
    /\ num_files' = <<>>
    /\ fsBefore' = fs
    /\ log' = <<>>
    /\ prev' = IF pc = "idle" THEN <<>>
               ELSE <<[pc |-> pc, update |-> update, num_files |-> num_files]>>
    /\ runs' = runs + 1
    /\ UNCHANGED <<blob, fs, arg_folder, arg_folders>>

\* download_page_w_revisions returns the body
DownloadOk ==
    /\ pc = "fetch"
    /\ pc' = "validate"
    /\ log' = Append(log, Event("fetch", 0, "", <<>>, OldText))
    /\ UNCHANGED <<blob, fs, update, i, err, num_files, fsBefore, prev, runs, arg_folder, arg_folders>>

\* requests.post or raise_for_status raises
DownloadFail ==
    /\ pc = "fetch"
    /\ pc' = "error"
    /\ err' = "RequestException"
    /\ log' = Append(log, Event("fetch", 0, "raise", <<>>, OldText))
    /\ UNCHANGED <<blob, fs, update, i, num_files, fsBefore, prev, runs, arg_folder, arg_folders>>

Validate ==
    /\ pc = "validate"
    /\ IF ValidatePage(Page, blob)
       THEN /\ pc' = "loop"
            /\ err' = err
            /\ log' = Append(log, Event("validate", 0, "", <<>>, OldText))
       ELSE /\ pc' = "error"
            /\ err' = "ValueError"
            /\ log' = Append(log, Event("validate", 0, "raise", <<>>, OldText))
    /\ UNCHANGED <<blob, fs, update, i, num_files, fsBefore, prev, runs, arg_folder, arg_folders>>

Revision ==
    /\ pc = "loop"
    /\ i < Len(ParseMediawikiRevisions(blob))
    /\ LET revs == ParseMediawikiRevisions(blob)
           r    == Iterate(update, fs, revs, i)
       IN  /\ fs' = r.fs
           /\ i' = r.i
           /\ pc' = r.pc
           /\ err' = IF r.pc = "error" THEN "ValueError" ELSE err
           /\ log' = Append(log, Event("revision", i + 1, r.did, r.path, revs[i + 1]))
    /\ UNCHANGED <<blob, update, num_files, fsBefore, prev, runs, arg_folder, arg_folders>>

\* The generator is exhausted: count_files and the final print.
Report ==
    /\ pc = "loop"
    /\ i >= Len(ParseMediawikiRevisions(blob))
    /\ IF IsDir(fs, arg_folder)
       THEN /\ num_files' = <<CountFiles(fs, arg_folder, arg_folders)>>
            /\ pc' = "done"
            /\ err' = err
            /\ log' = Append(log, Event("count", 0, "", arg_folder, OldText))
       ELSE /\ num_files' = num_files
            /\ pc' = "error"
            /\ err' = "FileNotFoundError"
            /\ log' = Append(log, Event("count", 0, "raise", arg_folder, OldText))
    /\ UNCHANGED <<blob, fs, update, i, fsBefore, prev, runs, arg_folder, arg_folders>>

-----------------------------------------------------------------------------
(* Initial states *)

\* The places revision files of this page can have been left at.
RevisionPaths ==
    {DATA_DIR \o <<Page, "2020", mm, d \o ".xml">> : mm \in {"01", "02"}, d \in Ids}

TreeWith(D, S) ==
    [dirs  |-> D \cup UNION {Prefixes(Parent(p)) \ {<<>>} : p \in S},
     files |-> [p \in S |-> OldText]]

InitialFS ==
    {TreeWith(D, S) : D \in {{}, {DATA_DIR}, {DATA_DIR, DATA_DIR \o <<Page>>}},
                      S \in SUBSET RevisionPaths}

Init ==
    /\ blob \in Blobs
    /\ fs \in InitialFS
    /\ pc = "idle"
    /\ update = FALSE
    /\ i = 0
    /\ err = ""
    /\ num_files = <<>>
    /\ fsBefore = EmptyFS
    /\ log = <<>>
    /\ prev = <<>>
    /\ runs = 0
    /\ arg_folder = DATA_DIR \o <<Page>>   \* count_files(f"{data_dir}/{page}")
    /\ arg_folders = FALSE

Next ==
    \/ \E u \in BOOLEAN : Main(u)
    \/ DownloadOk
    \/ DownloadFail
    \/ Validate
    \/ Revision
    \/ Report

Spec == Init /\ [][Next]_vars

-----------------------------------------------------------------------------
(* count_files on its own: called on any directory of any tree of the      *)
(* bounded family below, with either value of the folders flag.            *)

TopNames == {"a", "b", "c", "d", "e"}

\* What hangs under one name of the root: nothing, a file, or directories
\* nested in one another ("x" in "x" ...) that end empty or with a file.
Chains ==
    {c \in SeqsUpTo({"dir", "file"}, MaxDepth) :
        \A k \in 1..Len(c) - 1 : c[k] = "dir"}

ChainPath(t, k) == <<t>> \o [j \in 1..k - 1 |-> "x"]

TreeOf(c) ==
    [dirs  |-> {ChainPath(t, k) : <<t, k>> \in
                  {tk \in TopNames \X (1..MaxDepth) :
                      tk[2] <= Len(c[tk[1]]) /\ c[tk[1]][tk[2]] = "dir"}},
     files |-> [p \in {ChainPath(t, k) : <<t, k>> \in
                  {tk \in TopNames \X (1..MaxDepth) :
                      tk[2] <= Len(c[tk[1]]) /\ c[tk[1]][tk[2]] = "file"}}
                |-> OldText]]

Trees == {TreeOf(c) : c \in [TopNames -> Chains]}

InitCount ==
    /\ blob = [page |-> <<>>, revision |-> <<>>]
    /\ fs \in Trees
    /\ arg_folder \in fs.dirs \cup {<<>>}
    /\ arg_folders \in BOOLEAN
    /\ pc = "call"
    /\ update = FALSE
    /\ i = 0
    /\ err = ""
    /\ num_files = <<>>
    /\ fsBefore = EmptyFS
    /\ log = <<>>
    /\ prev = <<>>
    /\ runs = 0

CountFilesCall ==
    /\ pc = "call"
    /\ num_files' = <<CountFiles(fs, arg_folder, arg_folders)>>
    /\ pc' = "returned"
    /\ UNCHANGED <<blob, fs, update, i, err, fsBefore, log, prev, runs, arg_folder, arg_folders>>

NextCount == CountFilesCall

SpecCount == InitCount /\ [][NextCount]_vars

-----------------------------------------------------------------------------
(* Vocabulary of the properties, stated from the documented layout         *)
(* <data_dir>/<page>/<year>/<2-digit month>/<revision_id>.xml and not from  *)
(* the operators above.                                                    *)

Revs == blob.revision

MonthNames == <<"01", "02", "03", "04", "05", "06",
                "07", "08", "09", "10", "11", "12">>

\* The pattern %Y-%m-%dT%H:%M:%SZ as strptime reads it (the leading zero of
\* the month is optional).
OnPattern(t) ==
    /\ Len(t.Y) = 4
    /\ t.m \in {<<n>> : n \in 1..9} \cup {<<0, n>> : n \in 1..9}
                \cup {<<1, 0>>, <<1, 1>>, <<1, 2>>}
    /\ t.rest \in ValidRest

WellFormed(r) == r.id # <<>> /\ r.timestamp # <<>> /\ OnPattern(r.timestamp[1])

LayoutPath(r) ==
    DATA_DIR \o <<Page, ToString(Num(r.timestamp[1].Y)),
                  MonthNames[Num(r.timestamp[1].m)], r.id[1] \o ".xml">>

PageDir == DATA_DIR \o <<Page>>

Under(d, p) == Len(p) > Len(d) /\ SubSeq(p, 1, Len(d)) = d

\* Indices of the revisions whose output path is p
At(p) == {k \in 1..Len(Revs) : WellFormed(Revs[k]) /\ LayoutPath(Revs[k]) = p}

Max(S) == CHOOSE n \in S : \A o \in S : o <= n
Min(S) == CHOOSE n \in S : \A o \in S : n <= o

Malformed == {k \in 1..Len(Revs) : ~WellFormed(Revs[k])}

\* The events of the log that wrote a file, and those that wrote p
Writes     == {j \in 1..Len(log) : log[j].did = "write"}
WritesTo(p) == {j \in Writes : log[j].path = p}
Skipped    == {j \in 1..Len(log) : log[j].did = "skip"}

\* Every file holds what the last write of this run put there, or what it
\* held when the run started.
FilesFollowLog ==
    /\ \A p \in DOMAIN fs.files :
         IF WritesTo(p) # {} THEN fs.files[p] = log[Max(WritesTo(p))].text
         ELSE p \in DOMAIN fsBefore.files /\ fs.files[p] = fsBefore.files[p]
    /\ \A p \in DOMAIN fsBefore.files : p \in DOMAIN fs.files
    /\ \A j \in Writes : log[j].path \in DOMAIN fs.files

\* The file system a run over all of revs leaves, started on f
RECURSIVE RunFrom(_, _, _, _)
RunFrom(upd, f, revs, n) ==
    IF n >= Len(revs) THEN f
    ELSE RunFrom(upd, Iterate(upd, f, revs, n).fs, revs, n + 1)

-----------------------------------------------------------------------------
(* C1: a second run with update off, after a completed run with update off *)
(* on the same body, leaves the file system as the first run left it, and  *)
(* reports the same count.                                                 *)
C1_Idempotent ==
    (pc = "done" /\ ~update /\ prev # <<>> /\ prev[1].pc = "done" /\ ~prev[1].update)
        => fs = fsBefore /\ num_files = prev[1].num_files

C1_Witness ==
    /\ pc = "done" /\ ~update /\ prev # <<>> /\ prev[1].pc = "done" /\ ~prev[1].update
    /\ Len(Revs) = 2
    /\ Cardinality(Skipped) = 2
    /\ \E j \in Skipped : fs.files[log[j].path] # log[j].text

(* C2 as stated: after a completed run with update on, every file that was *)
(* there before the run at the output path of a revision of the body holds *)
(* the text of that revision.                                              *)
C2_OverwriteEvery ==
    (pc = "done" /\ update) =>
        \A p \in DOMAIN fsBefore.files : \A k \in At(p) : fs.files[p] = Revs[k]

(* C2 amended: ... holds the text of the last revision of the body with    *)
(* that output path, which is what a run with update on of the same body   *)
(* into an empty directory leaves there.                                   *)
C2_OverwriteLast ==
    (pc = "done" /\ update) =>
        \A p \in DOMAIN fsBefore.files :
            At(p) # {} =>
                /\ p \in DOMAIN fs.files
                /\ fs.files[p] = Revs[Max(At(p))]
                /\ LET fresh == RunFrom(TRUE, EmptyFS, Revs, 0)
                   IN  p \in DOMAIN fresh.files /\ fs.files[p] = fresh.files[p]

C2_Witness ==
    /\ pc = "done" /\ update
    /\ \E p \in DOMAIN fsBefore.files :
         /\ Cardinality(At(p)) = 2
         /\ Revs[1] # Revs[2]
         /\ fsBefore.files[p] = OldText
         /\ fs.files[p] = Revs[2]

(* C3: with update off, a revision whose output path exists when it is     *)
(* processed is not written: the file system stays as it is and the loop   *)
(* goes on to the next revision.                                           *)
C3_SkipOnExists ==
    [][(/\ pc = "loop" /\ ~update /\ i < Len(Revs)
        /\ WellFormed(Revs[i + 1])
        /\ Exists(fs, LayoutPath(Revs[i + 1])))
       => (fs' = fs /\ pc' = "loop" /\ i' = i + 1 /\ err' = "")]_vars

C3_Witness ==
    /\ ~update
    /\ Len(log) >= 4
    /\ log[3].did = "skip"
    /\ fsBefore.files[log[3].path] # log[3].text
    /\ fs.files[log[3].path] = fsBefore.files[log[3].path]
    /\ log[4].op = "revision"

(* C4: a completed run on an empty output directory, over a body whose     *)
(* revision ids are pairwise distinct, leaves exactly one file per         *)
(* revision, at <data_dir>/<page>/<year>/<2-digit month>/<id>.xml, holding *)
(* the text of that revision, and nothing else.                            *)
C4_Layout ==
    (/\ pc = "done"
     /\ DOMAIN fsBefore.files = {}
     /\ \A j, k \in 1..Len(Revs) : j # k => Revs[j].id # Revs[k].id)
    => /\ \A k \in 1..Len(Revs) : WellFormed(Revs[k])
       /\ DOMAIN fs.files = {LayoutPath(Revs[k]) : k \in 1..Len(Revs)}
       /\ Cardinality(DOMAIN fs.files) = Len(Revs)
       /\ \A k \in 1..Len(Revs) : fs.files[LayoutPath(Revs[k])] = Revs[k]

C4_Witness ==
    /\ pc = "done"
    /\ fsBefore = EmptyFS
    /\ blob.revision = <<[id |-> <<"100">>, timestamp |-> <<Jan05>>, text |-> "new"],
                         [id |-> <<"101">>, timestamp |-> <<Feb10>>, text |-> "new"]>>
    /\ DOMAIN fs.files = {<<"data", "Cat", "2020", "01", "100.xml">>,
                          <<"data", "Cat", "2020", "02", "101.xml">>}

(* C5: when the fetch fails or the body has no page tag, the run never     *)
(* gets to a revision or to the count, and the file system stays as it was *)
(* when the run started.                                                   *)
C5_FailFast ==
    (pc # "idle" /\ (err = "RequestException" \/ blob.page = <<>>))
        => /\ pc \in {"fetch", "validate", "error"}
           /\ fs = fsBefore
           /\ i = 0
           /\ num_files = <<>>
           /\ \A j \in 1..Len(log) : log[j].op \in {"fetch", "validate"}

C5_Witness ==
    /\ pc = "error" /\ err = "ValueError"
    /\ blob.page = <<>>
    /\ Len(Revs) = 2 /\ WellFormed(Revs[1])
    /\ log[Len(log)].op = "validate"

C7_ReportedIsWritten ==
    pc = "done" => num_files = <<Cardinality({log[j].path : j \in Writes})>>

(* C9: a run fetches once, then validates once, then takes the revisions   *)
(* of the body one at a time in document order, each once, and counts      *)
(* only after the last one; nothing follows a step that raised.            *)
C9_Ordered ==
    /\ \A j \in 1..Len(log) :
         /\ j = 1 => log[j].op = "fetch"
         /\ j = 2 => log[j].op = "validate"
         /\ j > 2 => \/ /\ log[j].op = "revision"
                        /\ j - 2 <= Len(Revs)
                        /\ log[j].n = j - 2
                        /\ log[j].text = Revs[j - 2]
                     \/ /\ log[j].op = "count"
                        /\ j = Len(Revs) + 3
         /\ j < Len(log) => log[j].did # "raise"
    /\ pc = "done" => Len(log) = Len(Revs) + 3
    /\ pc \in {"loop", "done"} => Len(log) >= 2
    /\ i = Cardinality({j \in 1..Len(log) : log[j].op = "revision"})

C9_Witness ==
    /\ pc = "done"
    /\ Len(Revs) = 2 /\ Revs[1] # Revs[2]
    /\ log[3].text = Revs[1] /\ log[4].text = Revs[2]
    /\ log[5].op = "count"

(* C10 as stated: a run whose fetch succeeds, whose body has a page tag    *)
(* and whose revisions are all well-formed does not end in an error.       *)
C10_Completes ==
    pc = "error" => \/ err = "RequestException"
                    \/ blob.page = <<>>
                    \/ Malformed # {}

-----------------------------------------------------------------------------
(* C8: count_files(folder) is the number of regular files at any depth     *)
(* under folder; with folders=True the directories strictly below folder   *)
(* are counted too.                                                        *)
C8_Counter ==
    pc = "returned" =>
        num_files =
            <<Cardinality({p \in DOMAIN fs.files : Under(arg_folder, p)})
              + (IF arg_folders
                 THEN Cardinality({p \in fs.dirs : Under(arg_folder, p)})
                 ELSE 0)>>

\* 3 files and 2 subdirectories holding 1 file each: 7 with the folders
C8_Witness ==
    /\ pc = "returned"
    /\ arg_folder = <<>> /\ arg_folders
    /\ fs.dirs = {<<"a">>, <<"b">>}
    /\ DOMAIN fs.files = {<<"a", "x">>, <<"b", "x">>, <<"c">>, <<"d">>, <<"e">>}
    /\ num_files = <<7>>

====
